---- MODULE Spec2Model ----
(***************************************************************************)
(* The sensor bridge of rust_ws/ucar_core/src/image_pub.rs: the ego        *)
(* vehicle discovery loop, the Ctrl-C flag, the transport and image sensor *)
(* set-up and the return of main.                                          *)
(*                                                                         *)
(* main runs as one thread whose position is pc; the ctrlc handler runs on *)
(* its own thread and may run between any two steps of main; the sensor    *)
(* callback runs on the simulator's dispatch thread while the sensor is    *)
(* attached.                                                               *)
(*                                                                         *)
(* The hello-world publisher of rust_ws/ucar_pub/src/ucar_pub.rs (its      *)
(* start-up and its publish loop, position pub_pc) and the UCarSubscriber  *)
(* object of rust_ws/ucar_python/src/lib.rs are separate programs with     *)
(* their own state and their own specifications.                           *)
(***************************************************************************)
EXTENDS Integers, Sequences, FiniteSets, TLC

\* ------------------------------------------------------------------ bounds
MaxActors == 2
MaxInterrupts == 2
MaxSamples == 2
MaxPasses == 2
MaxSleepCount == 2
MaxCounter == 4
MaxSendAttempts == 2
MaxCalls == 5
MaxSequence == 2
MaxClock == 2
MaxMessages == 3
MaxTopicMessages == 1

\* --------------------------------------------------------------- the world
\* Option<u32>::None; actor ids are 1..MaxActors
None == 0

ActorIds == 1..MaxActors

\* What carla hands back for one actor: its attribute list (id, value) and the
\* attribute whose access panics (0: none does; k: reading the k-th one panics,
\* k = 1 also standing for a panic of actor.attributes() itself).
Blueprints ==
    { [attrs |-> << <<"role_name", "ego_vehicle_role">> >>, fault |-> 0],
      [attrs |-> << <<"role_name", "hero">> >>, fault |-> 0],
      [attrs |-> << <<"color", "ego_vehicle_role">> >>, fault |-> 0],
      [attrs |-> << <<"color", "red">>, <<"role_name", "ego_vehicle_role">> >>, fault |-> 0],
      [attrs |-> << <<"role_name", "ego_vehicle_role">> >>, fault |-> 1],
      [attrs |-> << <<"role_name", "ego_vehicle_role">>, <<"color", "red">> >>, fault |-> 2] }

Actor(i, b) == [id |-> i, attrs |-> b.attrs, fault |-> b.fault]

\* Every actor list carla_world.actors() can return: up to MaxActors actors
\* with pairwise distinct ids, in any enumeration order.
Worlds ==
    UNION { { w \in [1..n -> {Actor(i, b) : i \in ActorIds, b \in Blueprints}] :
                \A p, q \in 1..n : p # q => w[p].id # w[q].id } : n \in 0..MaxActors }

\* The actor has a readable role_name attribute whose value is the marker: no
\* attribute access faults at or before it.
HasMarker(a) ==
    \E k \in 1..Len(a.attrs) :
        /\ a.attrs[k] = <<"role_name", "ego_vehicle_role">>
        /\ (a.fault = 0 \/ k < a.fault)

\* The id of the first actor of w, in enumeration order, that has the marker.
FirstMatch(w) ==
    IF \E i \in 1..Len(w) : HasMarker(w[i])
    THEN w[CHOOSE i \in 1..Len(w) :
              HasMarker(w[i]) /\ \A j \in 1..(i - 1) : ~HasMarker(w[j])].id
    ELSE None

VARIABLES
    running,          \* the AtomicBool of line 81: TRUE until Ctrl-C
    interrupts,       \* Ctrl-C signals delivered so far
    pc,               \* where main is
    ego_vehicle_id,   \* Option<u32>, line 144
    tick,             \* outcome of this iteration's wait_for_tick: "none", "ok", "err"
    actors,           \* the actor list of this iteration, line 153
    idx,              \* position of the for loop of line 154 in actors
    transport,        \* "none" or "built"
    sensor,           \* _image_sensor_keepalive: "none", "attached", "detached"
    image_actor_id,   \* the actor id the sensor set-up returned (line 265), None before
    samples,          \* sensor samples handed to the callback
    published,        \* samples encoded and sent
    h_passes,         \* history: scan passes started (saturates at MaxPasses)
    h_cancelSleeps,   \* history: sleeps started with the flag already set
    h_passAfterCancelSleep, \* history: a pass started after such a sleep
    h_matchScanned,   \* history: some scanned snapshot held a readable match
    h_seen,           \* history: the flag as it was at the loop exit, the
                      \* transport build and the sensor set-up
    \* ucar_pub.rs
    pub_pc,           \* where ucar_pub's main is
    pub_transport,    \* "none" or "built" (line 42)
    pub_uuri,         \* "none" or "set" (line 52)
    counter,          \* let mut counter = 0u32 (line 61)
    pub_result,       \* outcome of this iteration's send: "none", "ok", "err"
    pub_sent,         \* the counters of the messages the transport accepted, in order
    pub_panicAt,      \* the expect/unwrap that ended ucar_pub, "none" while it runs
    h_counterAtTop,   \* history: counter when this iteration began
    h_sendAttempts,   \* history: sends attempted in this iteration
    h_failedSends,    \* history: failed sends so far
    h_topFlag,        \* history: the bridge's flag when this iteration began
    \* ucar_python lib.rs
    sub_runtime,      \* UCarSubscriber.runtime: "none" or "some"
    sub_transport,    \* UCarSubscriber.transport: "none" or "some"
    sub_uuri,         \* UCarSubscriber.uuri: "none" or "some"
    sub_tasks,        \* tasks spawned by start_listening that have not yet registered
    sub_listeners,    \* listener registrations that succeeded
    sub_regFailed,    \* registrations that failed (logged only)
    sub_result,       \* what the last method call returned
    sub_calls,        \* method calls made so far
    h_initOk,         \* history: some initialize call returned Ok
    h_spawnBeforeInit, \* history: a task was spawned while no initialize had succeeded
    h_transportGen,   \* history: the initialize call that built the transport, 0 if none
    h_uuriGen,        \* history: the initialize call that built the topic, 0 if none
    sub_staleTasks,   \* of sub_tasks, those holding a transport since replaced
    sub_staleListeners, \* of sub_listeners, those registered on such a transport
    sub_msgs,         \* messages that arrived on the topic so far
    sub_lastRecv,     \* the last such message and the callbacks it reached
    h_okListen,       \* history: start_listening calls that returned Ok
    \* ucar_core lib.rs
    lib_call,         \* the last utility call: its name and arguments
    lib_ret,          \* what that call returned
    \* the listeners (ucar_sub.rs HelloWorldListener, ucar_python PythonListener)
    lsn_received,     \* on_receive calls so far
    lsn_last,         \* the last on_receive call: listener, payload, outcome
    lsn_delivered,    \* per listener: messages delivered (printed / callback called)
    lsn_logged,       \* per listener: warnings and decode errors logged
    py_cbErrors,      \* callback errors the Python listener reported
    h_good,           \* history, per listener: well-formed messages received
    h_bad             \* history, per listener: other messages received

bridgeVars == << running, interrupts, pc, ego_vehicle_id, tick, actors, idx, transport,
                 sensor, image_actor_id, samples, published, h_passes, h_cancelSleeps,
                 h_passAfterCancelSleep, h_matchScanned, h_seen >>

pubVars == << pub_pc, pub_transport, pub_uuri, counter, pub_result, pub_sent,
              pub_panicAt, h_counterAtTop, h_sendAttempts, h_failedSends, h_topFlag >>

subVars == << sub_runtime, sub_transport, sub_uuri, sub_tasks, sub_listeners,
              sub_regFailed, sub_result, sub_calls, h_initOk, h_spawnBeforeInit,
              h_transportGen, h_uuriGen, sub_staleTasks, sub_staleListeners,
              sub_msgs, sub_lastRecv, h_okListen >>

libVars == << lib_call, lib_ret >>

lsnVars == << lsn_received, lsn_last, lsn_delivered, lsn_logged, py_cbErrors,
              h_good, h_bad >>

vars == << bridgeVars, pubVars, subVars, libVars, lsnVars >>

worldVars == << tick, actors, idx >>
setupVars == << transport, sensor, image_actor_id, samples, published >>
histVars == << h_passes, h_cancelSleeps, h_passAfterCancelSleep, h_matchScanned, h_seen >>

Terminal == {"exit_ok", "exit_not_found", "exit_transport_err", "panic"}

FlagNow == IF running THEN "running" ELSE "cancelled"

Min2(a, b) == IF a < b THEN a ELSE b

\* ------------------------------------------------------------ pure helpers
\* The closure given to catch_unwind (lines 156-172), from attribute k on:
\* Some(actor.id()) at the first role_name attribute with the marker value,
\* None when the attributes are exhausted, a panic (caught as Err) when an
\* attribute access faults before that.
RECURSIVE ScanAttributes_anyName(_, _)
ScanAttributes_anyName(actor, k) ==
    IF k > Len(actor.attrs) THEN [tag |-> "None", id |-> None]
    ELSE IF actor.fault = k THEN [tag |-> "Err", id |-> None]
    ELSE IF actor.attrs[k][2] = "ego_vehicle_role" THEN [tag |-> "Some", id |-> actor.id]
    ELSE ScanAttributes_anyName(actor, k + 1)

RECURSIVE ScanAttributes(_, _)
ScanAttributes(actor, k) ==
    IF k > Len(actor.attrs) THEN [tag |-> "None", id |-> None]
    ELSE IF actor.fault = k THEN [tag |-> "Err", id |-> None]
    ELSE IF actor.attrs[k][1] = "role_name" /\ actor.attrs[k][2] = "ego_vehicle_role"
         THEN [tag |-> "Some", id |-> actor.id]
    ELSE ScanAttributes(actor, k + 1)

catch_unwind_firstOnly(actor) ==
    IF Len(actor.attrs) = 0 THEN [tag |-> "None", id |-> None]
    ELSE IF actor.fault = 1 THEN [tag |-> "Err", id |-> None]
    ELSE IF actor.attrs[1] = <<"role_name", "ego_vehicle_role">>
         THEN [tag |-> "Some", id |-> actor.id]
    ELSE [tag |-> "None", id |-> None]

catch_unwind(actor) == ScanAttributes(actor, 1)

\* The match on the result (lines 173-182): which arm leaves the for loop.
MatchArm_errBreaks(r) == IF r.tag = "None" THEN "continue" ELSE "break"

MatchArm(r) ==
    CASE r.tag = "Some" -> "break"
      [] r.tag = "None" -> "continue"
      [] r.tag = "Err" -> "continue"

\* The loop condition of line 146.
LoopCond_isSome(r, e) == r /\ e # None

LoopCond_noFlag(r, e) == e = None

LoopCond(r, e) == r /\ e = None

\* What the ctrlc handler stores into the flag (line 86), given its value.
ctrlc_handler_toggle(r) == ~r

ctrlc_handler(r) == FALSE

\* The check of line 190.
NotFound_inverted(e) == e # None

NotFound(e) == e = None

\* Dropping _image_sensor_keepalive when main returns (lines 254, 292).
DropKeepalive_leak(s) == s

DropKeepalive(s) == IF s = "attached" THEN "detached" ELSE s

\* ------------------------------------------------------------------- Init
\* ucar_pub's main before its first statement (line 33).
PubInit ==
    /\ pub_pc = "build"
    /\ pub_transport = "none"
    /\ pub_uuri = "none"
    /\ counter = 0
    /\ pub_result = "none"
    /\ pub_sent = << >>
    /\ pub_panicAt = "none"
    /\ h_counterAtTop = 0
    /\ h_sendAttempts = 0
    /\ h_failedSends = 0
    /\ h_topFlag = "na"

\* The object UCarSubscriber::new returns with Ok (lines 121-125).
SubInit ==
    /\ sub_runtime = "some"
    /\ sub_transport = "none"
    /\ sub_uuri = "none"
    /\ sub_tasks = 0
    /\ sub_listeners = 0
    /\ sub_regFailed = 0
    /\ sub_result = [call |-> "new", ret |-> "Ok"]
    /\ sub_calls = 0
    /\ h_initOk = FALSE
    /\ h_spawnBeforeInit = FALSE
    /\ h_transportGen = 0
    /\ h_uuriGen = 0
    /\ sub_staleTasks = 0
    /\ sub_staleListeners = 0
    /\ sub_msgs = 0
    /\ sub_lastRecv = [received |-> FALSE]
    /\ h_okListen = 0

\* No utility of ucar_core lib.rs has been called.
LibIdle ==
    /\ lib_call = [op |-> "none"]
    /\ lib_ret = [tag |-> "pending"]

Listeners == {"HelloWorldListener", "PythonListener"}

\* No message has reached a listener.
LsnInit ==
    /\ lsn_received = 0
    /\ lsn_last = [listener |-> "none"]
    /\ lsn_delivered = [l \in Listeners |-> 0]
    /\ lsn_logged = [l \in Listeners |-> 0]
    /\ py_cbErrors = 0
    /\ h_good = [l \in Listeners |-> 0]
    /\ h_bad = [l \in Listeners |-> 0]

\* image_pub.rs main before its first statement of the discovery loop.
BridgeInit ==
    /\ running = TRUE
    /\ interrupts = 0
    /\ pc = "while"
    /\ ego_vehicle_id = None
    /\ tick = "none"
    /\ actors = << >>
    /\ idx = 0
    /\ transport = "none"
    /\ sensor = "none"
    /\ image_actor_id = None
    /\ samples = 0
    /\ published = 0
    /\ h_passes = 0
    /\ h_cancelSleeps = 0
    /\ h_passAfterCancelSleep = FALSE
    /\ h_matchScanned = FALSE
    /\ h_seen = [exit |-> "na", build |-> "na", setup |-> "na"]

Init ==
    /\ BridgeInit
    /\ PubInit
    /\ SubInit
    /\ LibIdle
    /\ LsnInit

\* ---------------------------------------------------------------- actions
\* The Ctrl-C handler (lines 84-87).
CtrlC ==
    /\ pc \notin Terminal
    /\ interrupts < MaxInterrupts
    /\ running' = ctrlc_handler(running)
    /\ interrupts' = interrupts + 1
    /\ UNCHANGED << pc, ego_vehicle_id, worldVars, setupVars, histVars >>
    /\ UNCHANGED << pubVars, subVars, libVars, lsnVars >>

\* while running.load(SeqCst) && ego_vehicle_id.is_none() (line 146)
WhileCheck ==
    /\ pc = "while"
    /\ IF LoopCond(running, ego_vehicle_id)
       THEN /\ pc' = "wait_for_tick"
            /\ h_passes' = Min2(h_passes + 1, MaxPasses)
            /\ h_passAfterCancelSleep' = (h_passAfterCancelSleep \/ h_cancelSleeps >= 1)
            /\ UNCHANGED h_seen
       ELSE /\ pc' = "is_none"
            /\ h_seen' = [h_seen EXCEPT !.exit = FlagNow]
            /\ UNCHANGED << h_passes, h_passAfterCancelSleep >>
    /\ UNCHANGED << running, interrupts, ego_vehicle_id, worldVars, setupVars,
                    h_cancelSleeps, h_matchScanned >>
    /\ UNCHANGED << pubVars, subVars, libVars, lsnVars >>

\* Where main goes after wait_for_tick returned (line 150): the result is
\* bound to _ and dropped, so the actor list is read next in either case.
AfterTick_errSkips(outcome) == IF outcome = "ok" THEN "actors" ELSE "sleep"

AfterTick(outcome) == "actors"

\* let _ = carla_world.wait_for_tick() (line 150): the outcome is discarded.
WaitForTick ==
    /\ pc = "wait_for_tick"
    /\ \E outcome \in {"ok", "err"} :
         /\ tick' = outcome
         /\ pc' = AfterTick(outcome)
    /\ UNCHANGED << running, interrupts, ego_vehicle_id, actors, idx, setupVars, histVars >>
    /\ UNCHANGED << pubVars, subVars, libVars, lsnVars >>

\* let actors = carla_world.actors() (line 153): the snapshot is whatever the
\* simulator holds at this moment.
ListActors ==
    /\ pc = "actors"
    /\ \E w \in Worlds :
         /\ actors' = w
         /\ h_matchScanned' =
              (h_matchScanned \/ \E i \in 1..Len(w) : HasMarker(w[i]))
    /\ idx' = 1
    /\ pc' = "for"
    /\ UNCHANGED << running, interrupts, ego_vehicle_id, tick, setupVars,
                    h_passes, h_cancelSleeps, h_passAfterCancelSleep, h_seen >>
    /\ UNCHANGED << pubVars, subVars, libVars, lsnVars >>

\* One iteration of for actor in actors.iter() (lines 154-183).
ForActor ==
    /\ pc = "for"
    /\ idx <= Len(actors)
    /\ LET r == catch_unwind(actors[idx]) IN
         /\ ego_vehicle_id' = IF r.tag = "Some" THEN r.id ELSE ego_vehicle_id
         /\ IF MatchArm(r) = "break"
            THEN pc' = "sleep" /\ idx' = idx
            ELSE pc' = "for" /\ idx' = idx + 1
    /\ UNCHANGED << running, interrupts, tick, actors, setupVars, histVars >>
    /\ UNCHANGED << pubVars, subVars, libVars, lsnVars >>

\* The for loop runs out of actors (line 183).
ForEnd ==
    /\ pc = "for"
    /\ idx > Len(actors)
    /\ pc' = "sleep"
    /\ UNCHANGED << running, interrupts, ego_vehicle_id, worldVars, setupVars, histVars >>
    /\ UNCHANGED << pubVars, subVars, libVars, lsnVars >>

\* tokio::time::sleep(POLLING_EGO_MS) (line 186), then the end of the loop
\* body, where actors goes out of scope.
Sleep ==
    /\ pc = "sleep"
    /\ h_cancelSleeps' = IF running THEN h_cancelSleeps
                         ELSE Min2(h_cancelSleeps + 1, MaxSleepCount)
    /\ pc' = "while"
    /\ tick' = "none"
    /\ actors' = << >>
    /\ idx' = 0
    /\ UNCHANGED << running, interrupts, ego_vehicle_id, setupVars,
                    h_passes, h_passAfterCancelSleep, h_matchScanned, h_seen >>
    /\ UNCHANGED << pubVars, subVars, libVars, lsnVars >>

\* if ego_vehicle_id.is_none() { return Err("Ego vehicle not found") } (lines 190-193)
IsNoneCheck ==
    /\ pc = "is_none"
    /\ pc' = IF NotFound(ego_vehicle_id) THEN "exit_not_found" ELSE "build"
    /\ UNCHANGED << running, interrupts, ego_vehicle_id, worldVars, setupVars, histVars >>
    /\ UNCHANGED << pubVars, subVars, libVars, lsnVars >>

\* StaticUriProvider::new and UPTransportZenoh::builder(..).build().await?
\* (lines 197-210): a build error leaves main through the ? operator.
BuildTransport ==
    /\ pc = "build"
    /\ h_seen' = [h_seen EXCEPT !.build = FlagNow]
    /\ \E ok \in BOOLEAN :
         IF ok THEN transport' = "built" /\ pc' = "setup_sensor"
               ELSE transport' = transport /\ pc' = "exit_transport_err"
    /\ UNCHANGED << running, interrupts, ego_vehicle_id, worldVars, sensor,
                    image_actor_id, samples, published, h_passes, h_cancelSleeps, h_passAfterCancelSleep,
                    h_matchScanned >>
    /\ UNCHANGED << pubVars, subVars, libVars, lsnVars >>

\* The actors of a world that carry the role the set-up is given (line 255,
\* handed over at line 270).
RoleLookup(w) == {w[i].id : i \in {j \in 1..Len(w) : HasMarker(w[j])}}

\* setup_sensor_with_transport(..).await.expect(..) (lines 254-289): Ok binds
\* the keepalive and the actor id the set-up found, Err panics in expect. The
\* call is given the world, the flag and the role string (lines 267-277), and
\* not ego_vehicle_id: the actor is looked up again, in the world as it is
\* then.
SetupSensor ==
    /\ pc = "setup_sensor"
    /\ h_seen' = [h_seen EXCEPT !.setup = FlagNow]
    /\ \/ \E w \in Worlds : \E id \in RoleLookup(w) :
            /\ sensor' = "attached"
            /\ image_actor_id' = id
            /\ pc' = "return"
       \/ /\ sensor' = sensor
          /\ image_actor_id' = image_actor_id
          /\ pc' = "panic"
    /\ UNCHANGED << running, interrupts, ego_vehicle_id, worldVars, transport, samples,
                    published, h_passes, h_cancelSleeps, h_passAfterCancelSleep,
                    h_matchScanned >>
    /\ UNCHANGED << pubVars, subVars, libVars, lsnVars >>

\* Ok(()) (line 292): main returns and its locals are dropped.
Return ==
    /\ pc = "return"
    /\ sensor' = DropKeepalive(sensor)
    /\ pc' = "exit_ok"
    /\ UNCHANGED << running, interrupts, ego_vehicle_id, worldVars, transport,
                    image_actor_id, samples, published, histVars >>
    /\ UNCHANGED << pubVars, subVars, libVars, lsnVars >>

\* The attached sensor delivers one sample: the encode closure (lines 259-264)
\* may fail, and so may the send on the transport handed over at line 277.
SensorSample ==
    /\ sensor = "attached"
    /\ samples < MaxSamples
    /\ samples' = samples + 1
    /\ \E encoded \in BOOLEAN, sent \in BOOLEAN :
         published' = IF encoded /\ sent THEN published + 1 ELSE published
    /\ UNCHANGED << running, interrupts, pc, ego_vehicle_id, worldVars, transport,
                    sensor, image_actor_id, histVars >>
    /\ UNCHANGED << pubVars, subVars, libVars, lsnVars >>

MainStep ==
    \/ WhileCheck
    \/ WaitForTick
    \/ ListActors
    \/ ForActor
    \/ ForEnd
    \/ Sleep
    \/ IsNoneCheck
    \/ BuildTransport
    \/ SetupSensor
    \/ Return

Next ==
    \/ CtrlC
    \/ WhileCheck
    \/ WaitForTick
    \/ ListActors
    \/ ForActor
    \/ ForEnd
    \/ Sleep
    \/ IsNoneCheck
    \/ BuildTransport
    \/ SetupSensor
    \/ Return
    \/ SensorSample

Spec == Init /\ [][Next]_vars

\* main is a running thread: a step it can take is eventually taken.
LiveSpec == Init /\ [][Next]_vars /\ WF_vars(MainStep)

TypeOK ==
    /\ running \in BOOLEAN
    /\ interrupts \in 0..MaxInterrupts
    /\ ego_vehicle_id \in {None} \cup ActorIds
    /\ tick \in {"none", "ok", "err"}
    /\ actors \in Worlds
    /\ idx \in 0..(MaxActors + 1)
    /\ transport \in {"none", "built"}
    /\ sensor \in {"none", "attached", "detached"}
    /\ image_actor_id \in {None} \cup ActorIds
    /\ samples \in 0..MaxSamples
    /\ published \in 0..samples

\* ------------------------------------------------------ ucar_pub.rs: main
\* Where main goes after UPTransportZenoh::builder("ucar").expect(..)
\* .with_config(..).build().await.expect(..) (lines 42-47).
AfterPubBuild_errIgnored(outcome) == "uuri"

AfterPubBuild(outcome) == IF outcome = "ok" THEN "uuri" ELSE "panic"

\* Where main goes after the match on transport.send(umsg).await (lines 88-97):
\* both arms only log.
AfterSend_retry(ok) == IF ok THEN "sleep" ELSE "send"

AfterSend(ok) == "sleep"

\* Lines 42-47: both the rejected authority and the failed build panic in expect.
PubBuild ==
    /\ pub_pc = "build"
    /\ \E outcome \in {"ok", "authority_err", "build_err"} :
         /\ pub_transport' = IF outcome = "ok" THEN "built" ELSE pub_transport
         /\ pub_pc' = AfterPubBuild(outcome)
         /\ pub_panicAt' = IF AfterPubBuild(outcome) = "panic" THEN "build" ELSE pub_panicAt
    /\ UNCHANGED << pub_uuri, counter, pub_result, pub_sent, h_counterAtTop,
                    h_sendAttempts, h_failedSends, h_topFlag >>
    /\ UNCHANGED << bridgeVars, subVars, libVars, lsnVars >>

\* UUri::try_from_parts(..).expect("Failed to create UUri") (lines 52-57)
PubUuri ==
    /\ pub_pc = "uuri"
    /\ \E ok \in BOOLEAN :
         IF ok THEN pub_uuri' = "set" /\ pub_pc' = "top" /\ pub_panicAt' = pub_panicAt
               ELSE pub_uuri' = pub_uuri /\ pub_pc' = "panic" /\ pub_panicAt' = "uuri"
    /\ UNCHANGED << pub_transport, counter, pub_result, pub_sent, h_counterAtTop,
                    h_sendAttempts, h_failedSends, h_topFlag >>
    /\ UNCHANGED << bridgeVars, subVars, libVars, lsnVars >>

\* The head of the loop body (lines 63-76): counter += 1, then the message is
\* made; duration_since(UNIX_EPOCH).unwrap() panics on a clock before the epoch.
PubTop ==
    /\ pub_pc = "top"
    /\ counter < MaxCounter
    /\ h_counterAtTop' = counter
    /\ counter' = counter + 1
    /\ h_sendAttempts' = 0
    /\ pub_result' = "none"
    /\ h_topFlag' = FlagNow
    /\ \E clock_ok \in BOOLEAN :
         IF clock_ok THEN pub_pc' = "serialize" /\ pub_panicAt' = pub_panicAt
                     ELSE pub_pc' = "panic" /\ pub_panicAt' = "timestamp"
    /\ UNCHANGED << pub_transport, pub_uuri, pub_sent, h_failedSends >>
    /\ UNCHANGED << bridgeVars, subVars, libVars, lsnVars >>

\* serde_json::to_vec(&hello_msg).expect(..) (lines 79-80)
PubSerialize ==
    /\ pub_pc = "serialize"
    /\ \E ok \in BOOLEAN :
         IF ok THEN pub_pc' = "build_msg" /\ pub_panicAt' = pub_panicAt
               ELSE pub_pc' = "panic" /\ pub_panicAt' = "serialize"
    /\ UNCHANGED << pub_transport, pub_uuri, counter, pub_result, pub_sent,
                    h_counterAtTop, h_sendAttempts, h_failedSends, h_topFlag >>
    /\ UNCHANGED << bridgeVars, subVars, libVars, lsnVars >>

\* UMessageBuilder::publish(..).build_with_payload(..).expect(..) (lines 83-85)
PubBuildMsg ==
    /\ pub_pc = "build_msg"
    /\ \E ok \in BOOLEAN :
         IF ok THEN pub_pc' = "send" /\ pub_panicAt' = pub_panicAt
               ELSE pub_pc' = "panic" /\ pub_panicAt' = "build_msg"
    /\ UNCHANGED << pub_transport, pub_uuri, counter, pub_result, pub_sent,
                    h_counterAtTop, h_sendAttempts, h_failedSends, h_topFlag >>
    /\ UNCHANGED << bridgeVars, subVars, libVars, lsnVars >>

\* match transport.send(umsg).await (lines 88-97): the message carries counter.
PubSend ==
    /\ pub_pc = "send"
    /\ h_sendAttempts' = Min2(h_sendAttempts + 1, MaxSendAttempts)
    /\ \E ok \in BOOLEAN :
         /\ pub_result' = IF ok THEN "ok" ELSE "err"
         /\ pub_sent' = IF ok THEN Append(pub_sent, counter) ELSE pub_sent
         /\ h_failedSends' = IF ok THEN h_failedSends
                             ELSE Min2(h_failedSends + 1, MaxCounter)
         /\ pub_pc' = AfterSend(ok)
    /\ UNCHANGED << pub_transport, pub_uuri, counter, pub_panicAt, h_counterAtTop,
                    h_topFlag >>
    /\ UNCHANGED << bridgeVars, subVars, libVars, lsnVars >>

\* thread::sleep(Duration::from_secs(2)) (line 100), then the next iteration.
PubSleep ==
    /\ pub_pc = "sleep"
    /\ pub_pc' = "top"
    /\ UNCHANGED << pub_transport, pub_uuri, counter, pub_result, pub_sent,
                    pub_panicAt, h_counterAtTop, h_sendAttempts, h_failedSends,
                    h_topFlag >>
    /\ UNCHANGED << bridgeVars, subVars, libVars, lsnVars >>

PubNext ==
    \/ PubBuild
    \/ PubUuri
    \/ PubTop
    \/ PubSerialize
    \/ PubBuildMsg
    \/ PubSend
    \/ PubSleep

PubSpec == Init /\ [][PubNext]_vars

PubTypeOK ==
    /\ pub_pc \in {"build", "uuri", "top", "serialize", "build_msg", "send", "sleep", "panic"}
    /\ counter \in 0..MaxCounter
    /\ pub_result \in {"none", "ok", "err"}
    /\ Len(pub_sent) <= counter
    /\ pub_panicAt \in {"none", "build", "uuri", "timestamp", "serialize", "build_msg"}

\* ------------------------------------------- ucar_python lib.rs: UCarSubscriber
NotInitializedMsg == "Transport not initialized. Call initialize() first."

\* What initialize returns for an outcome of its block_on (lines 130-163).
InitializeResult(rt, outcome) ==
    IF rt = "none" THEN "Runtime not available"
    ELSE CASE outcome = "ok" -> "Ok"
           [] outcome = "authority_err" -> "Authority not accepted"
           [] outcome = "build_err" -> "Unable to build UPTransportZenoh"
           [] outcome = "uuri_err" -> "Failed to create UUri"

\* What start_listening returns (lines 168-193): the three ok_or_else checks,
\* in order, then the spawn and Ok(()).
StartListeningResult_noCheck(rt, tr, uu) == "Ok"

StartListeningResult(rt, tr, uu) ==
    IF rt = "none" THEN "Runtime not available"
    ELSE IF tr = "none" THEN NotInitializedMsg
    ELSE IF uu = "none" THEN "UUri not set. Call initialize() first."
    ELSE "Ok"

\* is_initialized (lines 197-199)
is_initialized == sub_transport = "some" /\ sub_uuri = "some"

\* The fields after initialize returned ret in call number n (lines 160-163):
\* both are assigned after block_on returned Ok, neither otherwise.
AssignFields_partial(ret, n, old) ==
    IF ret = "Ok"
    THEN [transport |-> "some", uuri |-> "some", tgen |-> n, ugen |-> n]
    ELSE IF ret = "Failed to create UUri"
    THEN [old EXCEPT !.transport = "some", !.tgen = n]
    ELSE old

AssignFields_transportOnly(ret, n, old) ==
    IF ret = "Ok"
    THEN [old EXCEPT !.transport = "some", !.tgen = n]
    ELSE old

AssignFields(ret, n, old) ==
    IF ret = "Ok"
    THEN [transport |-> "some", uuri |-> "some", tgen |-> n, ugen |-> n]
    ELSE old

\* fn initialize(&mut self) (lines 129-164): the fields are assigned only after
\* block_on returned Ok.
SubInitialize ==
    /\ sub_calls < MaxCalls
    /\ sub_calls' = sub_calls + 1
    /\ \E outcome \in {"ok", "authority_err", "build_err", "uuri_err"} :
         LET ret == InitializeResult(sub_runtime, outcome)
             new == AssignFields(ret, sub_calls + 1,
                                 [transport |-> sub_transport, uuri |-> sub_uuri,
                                  tgen |-> h_transportGen, ugen |-> h_uuriGen]) IN
           /\ sub_result' = [call |-> "initialize", ret |-> ret]
           /\ sub_transport' = new.transport
           /\ sub_uuri' = new.uuri
           /\ h_transportGen' = new.tgen
           /\ h_uuriGen' = new.ugen
           /\ h_initOk' = (h_initOk \/ ret = "Ok")
           /\ sub_staleTasks' = IF ret = "Ok" THEN sub_tasks ELSE sub_staleTasks
           /\ sub_staleListeners' =
                IF ret = "Ok" THEN sub_listeners ELSE sub_staleListeners
    /\ UNCHANGED << sub_runtime, sub_tasks, sub_listeners, sub_regFailed,
                    h_spawnBeforeInit, sub_msgs, sub_lastRecv, h_okListen >>
    /\ UNCHANGED << bridgeVars, pubVars, libVars, lsnVars >>

\* The tasks a start_listening call that returns ret has spawned (line 180):
\* one per call that got past the three checks, whatever was spawned before.
Spawned_onlyFirst(ret) ==
    IF ret = "Ok" /\ sub_tasks + sub_listeners = 0 THEN 1 ELSE 0

Spawned(ret) == IF ret = "Ok" THEN 1 ELSE 0

\* fn start_listening(&self, callback) (lines 167-194): on Ok a task was
\* spawned on the runtime; the registration itself happens in that task.
SubStartListening ==
    /\ sub_calls < MaxCalls
    /\ sub_calls' = sub_calls + 1
    /\ LET ret == StartListeningResult(sub_runtime, sub_transport, sub_uuri) IN
         /\ sub_result' = [call |-> "start_listening", ret |-> ret]
         /\ sub_tasks' = sub_tasks + Spawned(ret)
         /\ h_okListen' = IF ret = "Ok" THEN h_okListen + 1 ELSE h_okListen
         /\ h_spawnBeforeInit' = (h_spawnBeforeInit \/ (ret = "Ok" /\ ~h_initOk))
    /\ UNCHANGED << sub_runtime, sub_transport, sub_uuri, sub_listeners, sub_regFailed,
                    h_initOk, h_transportGen, h_uuriGen, sub_staleTasks,
                    sub_staleListeners, sub_msgs, sub_lastRecv >>
    /\ UNCHANGED << bridgeVars, pubVars, libVars, lsnVars >>

\* The spawned task (lines 180-191): register_listener, whose error is only
\* logged.
\* The task registers on the transport it cloned at line 172, which a later
\* initialize may have replaced in the subscriber since.
SubTaskRun ==
    /\ sub_tasks > 0
    /\ sub_tasks' = sub_tasks - 1
    /\ \E ok \in BOOLEAN, stale \in BOOLEAN :
         /\ IF stale THEN sub_staleTasks > 0 ELSE sub_tasks > sub_staleTasks
         /\ sub_staleTasks' = IF stale THEN sub_staleTasks - 1 ELSE sub_staleTasks
         /\ sub_listeners' = IF ok THEN sub_listeners + 1 ELSE sub_listeners
         /\ sub_staleListeners' =
              IF ok /\ stale THEN sub_staleListeners + 1 ELSE sub_staleListeners
         /\ sub_regFailed' = IF ok THEN sub_regFailed ELSE sub_regFailed + 1
    /\ UNCHANGED << sub_runtime, sub_transport, sub_uuri, sub_result, sub_calls,
                    h_initOk, h_spawnBeforeInit, h_transportGen, h_uuriGen,
                    sub_msgs, sub_lastRecv, h_okListen >>
    /\ UNCHANGED << bridgeVars, pubVars, libVars, lsnVars >>

\* ------------------------------------------------------- ucar_core lib.rs
\* SensorMetadata::new_ucar, line 45
UCAR_ENTITY_ID == 65537

\* mod sensor_types (lines 53-61), the two the utilities use
sensor_types_IMAGE == "image"
sensor_types_LIDAR == "lidar"

\* mod resource_ids (lines 64-72): 0x1000 .. 0x1006
resource_ids_IMAGE == 4096
resource_ids_LIDAR == 4097
resource_ids_RADAR == 4098
resource_ids_IMU == 4099
resource_ids_COLLISION == 4100
resource_ids_LANE_INVASION == 4101
resource_ids_OBSTACLE_DETECTION == 4102

resource_ids_dup ==
    [IMAGE |-> resource_ids_IMAGE, LIDAR |-> resource_ids_LIDAR,
     RADAR |-> resource_ids_LIDAR, IMU |-> resource_ids_IMU,
     COLLISION |-> resource_ids_COLLISION,
     LANE_INVASION |-> resource_ids_LANE_INVASION,
     OBSTACLE_DETECTION |-> resource_ids_OBSTACLE_DETECTION]

resource_ids ==
    [IMAGE |-> resource_ids_IMAGE, LIDAR |-> resource_ids_LIDAR,
     RADAR |-> resource_ids_RADAR, IMU |-> resource_ids_IMU,
     COLLISION |-> resource_ids_COLLISION,
     LANE_INVASION |-> resource_ids_LANE_INVASION,
     OBSTACLE_DETECTION |-> resource_ids_OBSTACLE_DETECTION]

\* image_pub.rs, the sensor resource ids of lines 47-53: 0x8010 .. 0x8016
RESOURCE_LANE_INVASION_SENSOR == 32784
RESOURCE_COLLISION_SENSOR == 32785
RESOURCE_OBSTACLE_DETECTION_SENSOR == 32786
RESOURCE_IMAGE_SENSOR == 32787
RESOURCE_RADAR_SENSOR == 32788
RESOURCE_LIDAR_SENSOR == 32789
RESOURCE_IMU_SENSOR == 32790

RESOURCE_SENSOR ==
    [IMAGE |-> RESOURCE_IMAGE_SENSOR, LIDAR |-> RESOURCE_LIDAR_SENSOR,
     RADAR |-> RESOURCE_RADAR_SENSOR, IMU |-> RESOURCE_IMU_SENSOR,
     COLLISION |-> RESOURCE_COLLISION_SENSOR,
     LANE_INVASION |-> RESOURCE_LANE_INVASION_SENSOR,
     OBSTACLE_DETECTION |-> RESOURCE_OBSTACLE_DETECTION_SENSOR]

\* SensorMetadata::new_ucar (lines 42-49)
new_ucar(resource_id, sequence) ==
    [authority |-> "ucar", entity_id |-> UCAR_ENTITY_ID,
     resource_id |-> resource_id, sequence |-> sequence]

\* utils::create_image_sensor_data (lines 80-95); now is what
\* SystemTime::now().duration_since(UNIX_EPOCH).unwrap_or_default().as_secs()
\* gave, 0 for a clock before the epoch.
create_image_sensor_data(sensor_id, image_data, sequence, now) ==
    [sensor_id |-> sensor_id, timestamp |-> now, sensor_type |-> sensor_types_IMAGE,
     data |-> image_data, metadata |-> new_ucar(resource_ids.IMAGE, sequence)]

\* utils::create_lidar_sensor_data (lines 98-113)
create_lidar_sensor_data_imageId(sensor_id, lidar_data, sequence, now) ==
    [sensor_id |-> sensor_id, timestamp |-> now, sensor_type |-> sensor_types_LIDAR,
     data |-> lidar_data, metadata |-> new_ucar(resource_ids.IMAGE, sequence)]

create_lidar_sensor_data(sensor_id, lidar_data, sequence, now) ==
    [sensor_id |-> sensor_id, timestamp |-> now, sensor_type |-> sensor_types_LIDAR,
     data |-> lidar_data, metadata |-> new_ucar(resource_ids.LIDAR, sequence)]

\* utils::validate_sensor_data (lines 116-127): three checks, each returning
\* its own error.
validate_sensor_data_typeFirst(data) ==
    IF data.sensor_type = "" THEN [tag |-> "Err", msg |-> "Sensor type cannot be empty"]
    ELSE IF data.sensor_id = "" THEN [tag |-> "Err", msg |-> "Sensor ID cannot be empty"]
    ELSE IF data.timestamp = 0 THEN [tag |-> "Err", msg |-> "Timestamp cannot be zero"]
    ELSE [tag |-> "Ok"]

validate_sensor_data(data) ==
    IF data.sensor_id = "" THEN [tag |-> "Err", msg |-> "Sensor ID cannot be empty"]
    ELSE IF data.sensor_type = "" THEN [tag |-> "Err", msg |-> "Sensor type cannot be empty"]
    ELSE IF data.timestamp = 0 THEN [tag |-> "Err", msg |-> "Timestamp cannot be zero"]
    ELSE [tag |-> "Ok"]

\* The arguments the utilities are called with.
SensorIdInputs == {"", "camera_front", "lidar_top"}
SensorTypeInputs == {"", sensor_types_IMAGE, sensor_types_LIDAR}
DataInputs == {"{}", "{\"width\":800}"}
SequenceInputs == 0..MaxSequence
ClockInputs == 0..MaxClock
ResourceIdInputs ==
    {0} \cup {resource_ids[k] : k \in DOMAIN resource_ids}
        \cup {RESOURCE_SENSOR[k] : k \in DOMAIN RESOURCE_SENSOR}

LibCalls ==
    {[op |-> "validate_sensor_data",
      data |-> [sensor_id |-> i, timestamp |-> t, sensor_type |-> ty, data |-> d,
                metadata |-> new_ucar(resource_ids.IMAGE, 1)]] :
        i \in SensorIdInputs, t \in ClockInputs, ty \in SensorTypeInputs,
        d \in DataInputs}
    \cup {[op |-> "new_ucar", resource_id |-> r, sequence |-> q] :
             r \in ResourceIdInputs, q \in SequenceInputs}
    \cup {[op |-> o, sensor_id |-> i, data |-> d, sequence |-> q, now |-> t] :
             o \in {"create_image_sensor_data", "create_lidar_sensor_data"},
             i \in SensorIdInputs, d \in DataInputs, q \in SequenceInputs,
             t \in ClockInputs}

\* A utility call with some arguments is about to be made; nothing else runs.
LibInputs ==
    /\ BridgeInit
    /\ PubInit
    /\ SubInit
    /\ LsnInit
    /\ lib_call \in LibCalls
    /\ lib_ret = [tag |-> "pending"]

ValidateSensorData ==
    /\ lib_call.op = "validate_sensor_data"
    /\ lib_ret.tag = "pending"
    /\ lib_ret' = validate_sensor_data(lib_call.data)
    /\ UNCHANGED << lib_call, bridgeVars, pubVars, subVars, lsnVars >>

NewUcar ==
    /\ lib_call.op = "new_ucar"
    /\ lib_ret.tag = "pending"
    /\ lib_ret' = [tag |-> "Metadata",
                   value |-> new_ucar(lib_call.resource_id, lib_call.sequence)]
    /\ UNCHANGED << lib_call, bridgeVars, pubVars, subVars, lsnVars >>

CreateImageSensorData ==
    /\ lib_call.op = "create_image_sensor_data"
    /\ lib_ret.tag = "pending"
    /\ lib_ret' = [tag |-> "SensorData",
                   value |-> create_image_sensor_data(lib_call.sensor_id, lib_call.data,
                                                      lib_call.sequence, lib_call.now)]
    /\ UNCHANGED << lib_call, bridgeVars, pubVars, subVars, lsnVars >>

CreateLidarSensorData ==
    /\ lib_call.op = "create_lidar_sensor_data"
    /\ lib_ret.tag = "pending"
    /\ lib_ret' = [tag |-> "SensorData",
                   value |-> create_lidar_sensor_data(lib_call.sensor_id, lib_call.data,
                                                      lib_call.sequence, lib_call.now)]
    /\ UNCHANGED << lib_call, bridgeVars, pubVars, subVars, lsnVars >>

LibNext ==
    \/ ValidateSensorData
    \/ NewUcar
    \/ CreateImageSensorData
    \/ CreateLidarSensorData

LibSpec == LibInputs /\ [][LibNext]_vars

\* ------------------------------------------------------------ the listeners
\* What a JSON value of a payload is, as far as decoding goes: absent from the
\* object, a string, a number that fits u32, a larger number that fits u64,
\* a negative number.
JsonKinds == {"missing", "str", "u32", "u64", "neg"}

\* msg.payload: None, or bytes that are empty, no JSON object, or a JSON
\* object with some of the fields of HelloMessage.
Payloads ==
    {[present |-> FALSE], [present |-> TRUE, text |-> "empty"],
     [present |-> TRUE, text |-> "garbage"]}
    \cup {[present |-> TRUE, text |-> "object", message |-> m, timestamp |-> t,
           counter |-> c] :
             m \in {"missing", "str", "u32"}, t \in JsonKinds \ {"str"},
             c \in JsonKinds \ {"neg"}}

\* serde_json::from_slice::<HelloMessage> (ucar_sub.rs 11-16 and line 52;
\* ucar_python lib.rs 13-18 and line 60): message: String, timestamp: u64,
\* counter: u32, all three required.
from_slice(bytes) ==
    IF /\ bytes.text = "object"
       /\ bytes.message = "str"
       /\ bytes.timestamp \in {"u32", "u64"}
       /\ bytes.counter = "u32"
    THEN [tag |-> "Ok",
          value |-> [message |-> bytes.message, timestamp |-> bytes.timestamp,
                     counter |-> bytes.counter]]
    ELSE [tag |-> "Err"]

\* HelloWorldListener::on_receive (ucar_sub.rs 36-71)
HelloWorld_on_receive_sticky(msg) ==
    IF lsn_logged["HelloWorldListener"] > 0 THEN "decode_err"
    ELSE IF ~msg.present THEN "no_payload"
    ELSE IF msg.text = "empty" THEN "empty_payload"
    ELSE IF from_slice(msg).tag = "Ok" THEN "deliver"
    ELSE "decode_err"

HelloWorld_on_receive(msg) ==
    IF ~msg.present THEN "no_payload"
    ELSE IF msg.text = "empty" THEN "empty_payload"
    ELSE IF from_slice(msg).tag = "Ok" THEN "deliver"
    ELSE "decode_err"

\* PythonListener::on_receive (ucar_python lib.rs 44-85)
Python_on_receive_deliverOnErr(msg) ==
    IF ~msg.present THEN "no_payload"
    ELSE IF msg.text = "empty" THEN "empty_payload"
    ELSE "deliver"

Python_on_receive(msg) ==
    IF ~msg.present THEN "no_payload"
    ELSE IF msg.text = "empty" THEN "empty_payload"
    ELSE IF from_slice(msg).tag = "Ok" THEN "deliver"
    ELSE "decode_err"

\* The payload is present, not empty and decodes as a HelloMessage.
WellFormedHello(msg) ==
    /\ msg.present
    /\ msg.text # "empty"
    /\ from_slice(msg).tag = "Ok"

\* One message reaches the listener l, whose on_receive gave outcome; raised
\* tells whether the Python callback returned an error (line 67).
Received(l, msg, outcome, raised) ==
    LET d == IF outcome = "deliver" THEN 1 ELSE 0 IN
      /\ lsn_received' = lsn_received + 1
      /\ lsn_delivered' = [lsn_delivered EXCEPT ![l] = @ + d]
      /\ lsn_logged' = [lsn_logged EXCEPT ![l] = @ + (1 - d)]
      /\ py_cbErrors' = IF d = 1 /\ raised THEN py_cbErrors + 1 ELSE py_cbErrors
      /\ lsn_last' = [listener |-> l, payload |-> msg, outcome |-> outcome,
                      delivered |-> d, raised |-> (d = 1 /\ raised),
                      reported |-> (d = 1 /\ raised)]
      /\ h_good' = [h_good EXCEPT ![l] = @ + IF WellFormedHello(msg) THEN 1 ELSE 0]
      /\ h_bad' = [h_bad EXCEPT ![l] = @ + IF WellFormedHello(msg) THEN 0 ELSE 1]

\* HelloWorldListener::on_receive for one message: println! on Ok.
HelloWorldOnReceive ==
    /\ lsn_received < MaxMessages
    /\ \E msg \in Payloads :
         Received("HelloWorldListener", msg, HelloWorld_on_receive(msg), FALSE)
    /\ UNCHANGED << bridgeVars, pubVars, subVars, libVars >>

\* PythonListener::on_receive for one message: the callback is called under
\* the GIL, and an error it returns is printed (lines 64-70).
PythonOnReceive ==
    /\ lsn_received < MaxMessages
    /\ \E msg \in Payloads, raised \in BOOLEAN :
         Received("PythonListener", msg, Python_on_receive(msg), raised)
    /\ UNCHANGED << bridgeVars, pubVars, subVars, libVars >>

LsnNext ==
    \/ HelloWorldOnReceive
    \/ PythonOnReceive

LsnSpec == Init /\ [][LsnNext]_vars

\* The payloads tried on the subscriber's topic: no payload, empty, no JSON,
\* and HelloMessage objects with each kind of counter.
TopicPayloads ==
    {p \in Payloads :
        (p.present /\ p.text = "object") => (p.message = "str" /\ p.timestamp = "u64")}

\* A message arrives on the topic of the subscriber: the transport calls
\* on_receive of every listener registered on it (registered at line 186),
\* each of which calls its own callback. A listener registered on a transport
\* the subscriber has since replaced may or may not still be served.
SubReceive ==
    /\ sub_msgs < MaxTopicMessages
    /\ sub_msgs' = sub_msgs + 1
    /\ \E msg \in TopicPayloads :
       \E n \in (sub_listeners - sub_staleListeners)..sub_listeners :
         sub_lastRecv' =
           [received |-> TRUE, payload |-> msg,
            callbacks |-> IF Python_on_receive(msg) = "deliver" THEN n ELSE 0,
            calls |-> h_okListen, listeners |-> sub_listeners,
            stale |-> sub_staleListeners, pending |-> sub_tasks,
            failed |-> sub_regFailed]
    /\ UNCHANGED << sub_runtime, sub_transport, sub_uuri, sub_tasks, sub_listeners,
                    sub_regFailed, sub_result, sub_calls, h_initOk, h_spawnBeforeInit,
                    h_transportGen, h_uuriGen, sub_staleTasks, sub_staleListeners,
                    h_okListen >>
    /\ UNCHANGED << bridgeVars, pubVars, libVars, lsnVars >>

SubNext ==
    \/ SubInitialize
    \/ SubStartListening
    \/ SubTaskRun
    \/ SubReceive

SubSpec == Init /\ [][SubNext]_vars

\* ---------------------------------------------------------------- combined
\* One of the two programs is started: the one that takes the first step is
\* the one that runs.
BridgeIdle == pc = "while" /\ h_passes = 0 /\ interrupts = 0

PubIdle == pub_pc = "build"

EitherNext ==
    \/ PubIdle /\ Next
    \/ BridgeIdle /\ PubNext

EitherSpec == Init /\ [][EitherNext]_vars

\* The bridge and the publisher running side by side, as two processes of the
\* one system whose cancellation flag is the bridge's running.
SystemNext ==
    \/ Next
    \/ PubNext

SystemSpec == Init /\ [][SystemNext]_vars

InLoop == {"while", "wait_for_tick", "actors", "for", "sleep"}

\* ------------------------------------------------------------------ claims
\* C1: the locator returns the first actor, in enumeration order, of the first
\* snapshot holding a readable role_name attribute equal to the marker: a pass
\* is started only while nothing was found, a finished pass has found exactly
\* the first match of its snapshot (nothing when there is none), and an actor
\* is held only if some scanned snapshot had a match.
C1_FirstMatchReturned ==
    /\ pc \in {"wait_for_tick", "actors", "for"} => ego_vehicle_id = None
    /\ pc = "sleep" => ego_vehicle_id = FirstMatch(actors)
    /\ ego_vehicle_id # None => h_matchScanned
    /\ (h_matchScanned /\ pc # "for") => ego_vehicle_id # None

\* Scenario A after a pass without a match: the second actor of the snapshot
\* is the first match and is the one returned.
C1_Witness ==
    /\ pc = "sleep"
    /\ h_passes >= 2
    /\ Len(actors) = 2
    /\ ~HasMarker(actors[1])
    /\ ego_vehicle_id = actors[2].id

\* C2: once the flag is set the locator starts at most one poll-interval sleep
\* and starts no scan pass after that sleep.
C2_OneSleepAfterCancel ==
    /\ h_cancelSleeps <= 1
    /\ ~h_passAfterCancelSleep

C2_Witness ==
    /\ h_cancelSleeps = 1
    /\ h_seen.exit = "cancelled"
    /\ ego_vehicle_id = None

\* C3 (as claimed): when the flag is set before the locator returns, the
\* locator returns NotFound, never an actor handle.
C3_NotFoundWhenCancelled ==
    h_seen.exit = "cancelled" => ego_vehicle_id = None

\* C4: the discovery loop is left only with a match or with the flag set, as
\* the loop condition read them; no number of passes without a match ends it.
C4_ExitOnlyOnMatchOrCancel ==
    /\ pc \notin InLoop => h_seen.exit # "na"
    /\ h_seen.exit # "na" => (ego_vehicle_id # None \/ h_seen.exit = "cancelled")

C4_Witness ==
    /\ pc = "wait_for_tick"
    /\ h_passes = MaxPasses
    /\ running
    /\ ~h_matchScanned

\* C5: a panic while reading one actor's attributes skips that actor only: a
\* pass that found nothing went through the whole snapshot, a pass whose
\* snapshot holds a readable match ends with an actor found, and the only
\* panic that ends main is the one of the sensor set-up.
C5_FaultSkipsActor ==
    /\ (pc = "sleep" /\ ego_vehicle_id = None) => idx > Len(actors)
    /\ (pc = "sleep" /\ \E i \in 1..Len(actors) : HasMarker(actors[i]))
          => ego_vehicle_id # None
    /\ pc = "panic" => h_seen.setup # "na"

C5_Witness ==
    /\ pc = "sleep"
    /\ Len(actors) = 2
    /\ actors[1].fault = 1
    /\ ego_vehicle_id = actors[2].id

\* C6: the flag goes from not cancelled to cancelled at most once and is never
\* reset, and only the interrupt handler writes it.
C6_FlagSetOnce ==
    [][ /\ (~running => ~running')
        /\ (running' # running => interrupts' = interrupts + 1) ]_vars

C6_Witness ==
    /\ ~running
    /\ interrupts >= 2

C8_NoExitWhileRunning ==
    (pc = "exit_ok" \/ sensor = "detached") => ~running

\* C9 (as claimed): with the flag set, main neither builds the transport nor
\* starts the sensor set-up.
C9_NoSetupAfterCancel ==
    /\ h_seen.build # "cancelled"
    /\ h_seen.setup # "cancelled"

\* C10: after the flag is set an attached sensor is eventually detached, and
\* main has ended only with no sensor attached and no sample callback able
\* to run.
C10_DetachOnShutdown ==
    /\ [](pc \in Terminal => (sensor # "attached" /\ ~ENABLED SensorSample))
    /\ ((~running /\ sensor = "attached") ~> (sensor = "detached"))

\* The flag was unset at the set-up call and set while the sensor was attached.
C10_Witness ==
    /\ h_seen.setup = "running"
    /\ ~running
    /\ sensor = "detached"
    /\ pc = "exit_ok"

\* C11 (as claimed): a rejected sensor attachment is recovered locally and
\* does not end the process in a panic.
C11_AttachErrorNotFatal ==
    pc # "panic"

\* C12: a failed transport build ends the program at start-up with nothing
\* attached and nothing sent; the sensor set-up is called, a sensor attached
\* and a publish iteration begun only with the transport built (and, in
\* ucar_pub, the topic UUri made).
C12_NoWorkWithoutTransport ==
    /\ pc = "exit_transport_err" =>
          /\ transport = "none" /\ sensor = "none"
          /\ samples = 0 /\ published = 0
          /\ h_seen.setup = "na"
    /\ (h_seen.setup # "na" \/ sensor # "none" \/ samples > 0) => transport = "built"
    /\ pub_panicAt \in {"build", "uuri"} => (counter = 0 /\ pub_sent = << >>)
    /\ (counter > 0 \/ pub_sent # << >>) => (pub_transport = "built" /\ pub_uuri = "set")

\* The bridge found the actor and then failed to build the transport.
C12_Witness ==
    /\ pc = "exit_transport_err"
    /\ ego_vehicle_id # None
    /\ h_seen.build # "na"

\* C13 (as claimed): the accepted messages carry 0, 1, 2, ... in order.
C13_SequenceFromZero ==
    \A i \in 1..Len(pub_sent) : pub_sent[i] = i - 1

\* C14 (as claimed): a failed send leaves the counter as it was before that
\* sample.
C14_SendFailKeepsCounter ==
    (pub_pc = "sleep" /\ pub_result = "err") => counter = h_counterAtTop

\* C15 (as claimed): a failure to serialize the sample or to build its message
\* does not end the publish loop.
C15_EncodeFailureNotFatal ==
    pub_panicAt \notin {"serialize", "build_msg"}

\* C16 (as claimed): for a sample whose serialization fails no send is
\* attempted and the counter is what it was before the sample.
C16_EncodeFailNoSendNoCount ==
    pub_panicAt = "serialize" => (h_sendAttempts = 0 /\ counter = h_counterAtTop)

\* C17: every sample gets exactly one send attempt, a failed send does not end
\* the program, and after it the loop goes on to the next sample, which is
\* handled from a clean state.
C17_OneSendPerSample ==
    /\ h_sendAttempts <= 1
    /\ pub_pc = "sleep" => (h_sendAttempts = 1 /\ pub_result \in {"ok", "err"})
    /\ pub_pc \in {"serialize", "build_msg", "send"} =>
          (h_sendAttempts = 0 /\ pub_result = "none")
    /\ (h_failedSends > 0 /\ pub_pc = "panic") =>
          pub_panicAt \in {"timestamp", "serialize", "build_msg"}
    /\ pub_pc \in {"sleep", "top"} => Len(pub_sent) + h_failedSends = counter

\* A send failed and the loop has reached the send of the next sample.
C17_Witness ==
    /\ pub_pc = "send"
    /\ counter >= 2
    /\ pub_sent = << >>
    /\ h_failedSends = counter - 1

\* C18 (as claimed): every long-running loop reads the cancellation flag each
\* iteration and starts no iteration once the flag is set: neither a scan pass
\* of the discovery loop after the sleep that followed the flag, nor an
\* iteration of the publish loop.
C18_LoopsReadFlag ==
    /\ ~h_passAfterCancelSleep
    /\ h_topFlag # "cancelled"

\* C20: start_listening before a successful initialize returns the
\* "Transport not initialized" error and spawns nothing; tasks and listeners
\* exist only once some initialize has succeeded.
C20_NoListenBeforeInit ==
    /\ (sub_result.call = "start_listening" /\ ~h_initOk) =>
          sub_result.ret = NotInitializedMsg
    /\ ~h_initOk => (sub_tasks = 0 /\ sub_listeners = 0 /\ sub_regFailed = 0)
    /\ ~h_spawnBeforeInit
    /\ (sub_tasks > 0 \/ sub_listeners > 0) => is_initialized

\* start_listening was refused after an initialize that failed.
C20_Witness ==
    /\ sub_result = [call |-> "start_listening", ret |-> NotInitializedMsg]
    /\ sub_calls >= 2
    /\ ~h_initOk
    /\ sub_tasks = 0

\* C21: is_initialized is true exactly when some earlier initialize call
\* returned Ok, and an initialize call that returns an error leaves the
\* transport and the topic exactly as they were (the same objects, built by
\* the same earlier call).
C21_InitializedIffSucceeded ==
    /\ [](is_initialized <=> h_initOk)
    /\ [][(sub_calls' = sub_calls + 1 /\ sub_result'.call = "initialize"
                /\ sub_result'.ret # "Ok")
            => UNCHANGED << sub_transport, sub_uuri, h_transportGen, h_uuriGen >>]_vars

\* An initialize call failed after an earlier one had succeeded, and the
\* subscriber still holds what the earlier call built.
C21_Witness ==
    /\ sub_result.call = "initialize"
    /\ sub_result.ret = "Failed to create UUri"
    /\ is_initialized
    /\ h_transportGen > 0
    /\ h_transportGen < sub_calls

\* C22: validate_sensor_data returns Ok exactly when the sensor id is
\* non-empty, the sensor type is non-empty and the timestamp is non-zero;
\* otherwise it returns the error of the first failing check in the order
\* sensor id, sensor type, timestamp.
C22_ValidateFirstFailure ==
    (lib_call.op = "validate_sensor_data" /\ lib_ret.tag # "pending") =>
        LET d == lib_call.data IN
          /\ (lib_ret.tag = "Ok") <=>
                (d.sensor_id # "" /\ d.sensor_type # "" /\ d.timestamp # 0)
          /\ lib_ret.tag # "Ok" =>
                /\ lib_ret.tag = "Err"
                /\ lib_ret.msg =
                     IF d.sensor_id = "" THEN "Sensor ID cannot be empty"
                     ELSE IF d.sensor_type = "" THEN "Sensor type cannot be empty"
                     ELSE "Timestamp cannot be zero"

\* All three fields were invalid and the sensor id's error was returned.
C22_Witness ==
    /\ lib_call.op = "validate_sensor_data"
    /\ lib_call.data.sensor_id = ""
    /\ lib_call.data.sensor_type = ""
    /\ lib_call.data.timestamp = 0
    /\ lib_ret = [tag |-> "Err", msg |-> "Sensor ID cannot be empty"]

\* C23: new_ucar returns authority "ucar", entity id 0x00010001 and the given
\* resource id and sequence number; create_image_sensor_data and
\* create_lidar_sensor_data return the given sensor id and sequence number
\* with the sensor type and the resource id of their own kind.
C23_MetadataAndCreate ==
    /\ (lib_call.op = "new_ucar" /\ lib_ret.tag # "pending") =>
          /\ lib_ret.tag = "Metadata"
          /\ lib_ret.value.authority = "ucar"
          /\ lib_ret.value.entity_id = 65536 + 1
          /\ lib_ret.value.resource_id = lib_call.resource_id
          /\ lib_ret.value.sequence = lib_call.sequence
    /\ \A kind \in {"image", "lidar"} :
          (lib_call.op = "create_" \o kind \o "_sensor_data" /\ lib_ret.tag # "pending") =>
            /\ lib_ret.tag = "SensorData"
            /\ lib_ret.value.sensor_id = lib_call.sensor_id
            /\ lib_ret.value.metadata.sequence = lib_call.sequence
            /\ lib_ret.value.sensor_type = kind
            /\ lib_ret.value.metadata.resource_id =
                 IF kind = "image" THEN resource_ids_IMAGE ELSE resource_ids_LIDAR

\* A lidar record was created with a non-zero sequence number.
C23_Witness ==
    /\ lib_call.op = "create_lidar_sensor_data"
    /\ lib_call.sequence = MaxSequence
    /\ lib_call.sensor_id = "lidar_top"
    /\ lib_ret.tag = "SensorData"
    /\ lib_ret.value.metadata.resource_id = resource_ids_LIDAR

\* C24: the poll-interval sleep is executed only after a pass that found no
\* match, never between finding the match and returning it.
C24_SleepOnlyAfterMiss ==
    pc = "sleep" => ego_vehicle_id = None

\* C25: a failed tick synchronisation is ignored: the same iteration still
\* reads the actor list and scans it, and finishes with the result the scan
\* of that snapshot gives, exactly as after a successful tick.
C25_TickFailureIgnored ==
    /\ tick = "err" => pc \in {"actors", "for", "sleep"}
    /\ (tick = "err" /\ pc = "sleep") =>
          /\ idx >= 1
          /\ ego_vehicle_id = FirstMatch(actors)

\* After a failed tick the pass found the ego vehicle.
C25_Witness ==
    /\ tick = "err"
    /\ pc = "sleep"
    /\ ego_vehicle_id # None
    /\ ego_vehicle_id = FirstMatch(actors)

\* C26: the sensor is attached to exactly the actor the locator returned: the
\* handle of the match is the one the attachment uses, unchanged in between.
C26_AttachedToLocated ==
    sensor = "attached" => image_actor_id = ego_vehicle_id

\* C27: in each of the two resource-id tables no two sensor kinds have the
\* same resource id, so the metadata of a message names at most one sensor
\* kind of each table.
C27_ResourceIdsDistinct ==
    /\ \A a, b \in DOMAIN resource_ids :
          a # b => resource_ids[a] # resource_ids[b]
    /\ \A a, b \in DOMAIN RESOURCE_SENSOR :
          a # b => RESOURCE_SENSOR[a] # RESOURCE_SENSOR[b]
    /\ lib_ret.tag = "Metadata" =>
          /\ Cardinality({k \in DOMAIN resource_ids :
                            resource_ids[k] = lib_ret.value.resource_id}) <= 1
          /\ Cardinality({k \in DOMAIN RESOURCE_SENSOR :
                            RESOURCE_SENSOR[k] = lib_ret.value.resource_id}) <= 1

\* Metadata was built for the radar id of one table and names that kind only.
C27_Witness ==
    /\ lib_ret.tag = "Metadata"
    /\ lib_ret.value.resource_id = resource_ids_RADAR
    /\ {k \in DOMAIN resource_ids : resource_ids[k] = lib_ret.value.resource_id}
         = {"RADAR"}

\* C28: if the flag is never set and from some pass on every snapshot holds
\* a readable matching actor, then under fair scheduling of main the locator
\* eventually holds a match and main goes on to the transport build and,
\* unless that fails, to the sensor set-up.
C28_EventuallyLocated ==
    ([]running /\ <>[](pc = "for" => FirstMatch(actors) # None))
        => <>(/\ ego_vehicle_id # None
              /\ h_seen.build = "running"
              /\ (pc = "exit_transport_err" \/ h_seen.setup = "running"))

\* The flag was never set, the first pass found nothing, a later one found
\* the ego vehicle, and the sensor set-up was reached.
C28_Witness ==
    /\ running
    /\ interrupts = 0
    /\ h_passes >= 2
    /\ ego_vehicle_id # None
    /\ h_seen.setup = "running"

\* C29: a listener delivers a message exactly once when its payload is
\* present, non-empty and decodes as a HelloMessage, and never otherwise; an
\* error raised by the Python callback is reported and the deliveries after
\* it still happen (every well-formed message so far was delivered).
C29_DeliverExactlyWellFormed ==
    /\ \A l \in Listeners : lsn_delivered[l] = h_good[l]
    /\ lsn_last.listener # "none" =>
          /\ lsn_last.delivered = IF WellFormedHello(lsn_last.payload) THEN 1 ELSE 0
          /\ lsn_last.raised => lsn_last.reported
    /\ py_cbErrors <= lsn_delivered["PythonListener"]

\* The Python callback raised earlier, and a later message was delivered.
C29_Witness ==
    /\ lsn_last.listener = "PythonListener"
    /\ py_cbErrors >= 1
    /\ lsn_last.delivered = 1
    /\ ~lsn_last.raised
    /\ lsn_delivered["PythonListener"] >= 2

\* C30: a well-formed message is delivered whatever was received before it:
\* handling a message with an absent, empty or undecodable payload does not
\* stop the listener.
C30_DeliveryIndependentOfHistory ==
    [][\A l \in Listeners :
          (/\ lsn_received' = lsn_received + 1
           /\ lsn_last'.listener = l
           /\ WellFormedHello(lsn_last'.payload))
          => lsn_delivered'[l] = lsn_delivered[l] + 1]_vars

\* A message was delivered by a listener that had handled two bad ones.
C30_Witness ==
    /\ lsn_last.listener = "HelloWorldListener"
    /\ h_bad["HelloWorldListener"] >= 2
    /\ lsn_last.delivered = 1

\* C31: the transport and the topic are either both unset or both set (and
\* then built by the same initialize call), the runtime is always set, and
\* neither initialize nor start_listening ever returns "Runtime not
\* available" or "UUri not set".
C31_FieldsSetTogether ==
    /\ sub_runtime = "some"
    /\ (sub_transport = "none") <=> (sub_uuri = "none")
    /\ h_transportGen = h_uuriGen
    /\ sub_result.ret \notin {"Runtime not available",
                               "UUri not set. Call initialize() first."}

\* start_listening succeeded on a subscriber whose fields were built by a
\* second or later initialize call.
C31_Witness ==
    /\ sub_result = [call |-> "start_listening", ret |-> "Ok"]
    /\ sub_transport = "some"
    /\ sub_uuri = "some"
    /\ h_transportGen >= 2

\* C32, as amended: on an initialized subscriber start_listening returns Ok
\* without waiting for the registration (the listener count is unchanged by
\* the call and one more task is pending), a failed registration changes
\* nothing the caller sees, and every call that returned Ok accounts for
\* exactly one registration, pending, succeeded or failed; a well-formed
\* message reaches one callback per listener registered on the transport in
\* use (at most one per registered listener), none otherwise.
C32_OneRegistrationPerCall ==
    /\ [](/\ h_okListen = sub_tasks + sub_listeners + sub_regFailed
          /\ (sub_result.call = "start_listening" /\ is_initialized)
                => sub_result.ret = "Ok"
          /\ sub_lastRecv.received =>
                /\ sub_lastRecv.calls = sub_lastRecv.listeners + sub_lastRecv.pending
                                          + sub_lastRecv.failed
                /\ IF WellFormedHello(sub_lastRecv.payload)
                   THEN sub_lastRecv.callbacks \in
                          (sub_lastRecv.listeners - sub_lastRecv.stale)
                              ..sub_lastRecv.listeners
                   ELSE sub_lastRecv.callbacks = 0)
    /\ [][(/\ sub_calls' = sub_calls + 1
           /\ sub_result'.call = "start_listening"
           /\ sub_result'.ret = "Ok")
          => (sub_listeners' = sub_listeners /\ sub_tasks' = sub_tasks + 1)]_vars
    /\ [][sub_regFailed' # sub_regFailed
          => (sub_result' = sub_result /\ sub_calls' = sub_calls
              /\ sub_listeners' = sub_listeners)]_vars

\* Three calls returned Ok, one registration failed, and a well-formed
\* message reached the two callbacks that were registered.
C32_Witness ==
    /\ sub_lastRecv.received
    /\ WellFormedHello(sub_lastRecv.payload)
    /\ sub_lastRecv.calls = 3
    /\ sub_lastRecv.failed = 1
    /\ sub_lastRecv.pending = 0
    /\ sub_lastRecv.stale = 0
    /\ sub_lastRecv.callbacks = 2

\* C32 as stated: after k calls of start_listening that returned Ok, and with
\* no registration still pending, a received well-formed message is
\* delivered to k callbacks.
C32_KCallsKCallbacks ==
    (/\ sub_lastRecv.received
     /\ WellFormedHello(sub_lastRecv.payload)
     /\ sub_lastRecv.pending = 0)
        => sub_lastRecv.callbacks = sub_lastRecv.calls

====
